---- MODULE Spec2Model ----
(***************************************************************************)
(* Model of the chunking and continuation code of smart_scripts:           *)
(*   doc_writer/add_doxygen.py      split_cpp_file, add_doxygen_multi,     *)
(*                                  process_cpp_file                       *)
(*   pdf_cleaner/pdf_text_cleaner.py split_text_by_tokens,                 *)
(*                                  clean_text_with_gpt, main              *)
(* Text is a sequence of one-character strings.                            *)
(***************************************************************************)
EXTENDS Integers, Sequences, FiniteSets, TLC

VARIABLES
    \* split_cpp_file
    file_content, max_length, li, chunks, current_chunk, current_length,
    chunk_src, current_src, cpp_pc,
    \* split_text_by_tokens
    text, max_tokens, merges, current_pos, tok_chunks, chunk_windows, tok_pc,
    \* add_doxygen_multi and process_cpp_file
    chat_history, response, response_list, iter, doc_code, multi_pc,
    \* the PDF cleaner's main
    cleaned_chunks, total_tokens_processed, pdf_i, pdf_pc,
    \* the remote service, as the program's calls reach it
    request, calls, svc_log, waited,
    \* the output file of the pipeline that runs
    output_file

cppVars == <<file_content, max_length, li, chunks, current_chunk,
             current_length, chunk_src, current_src, cpp_pc>>

tokVars == <<text, max_tokens, merges, current_pos, tok_chunks,
             chunk_windows, tok_pc>>

docVars == <<chat_history, response, response_list, iter, doc_code, multi_pc>>

pdfVars == <<cleaned_chunks, total_tokens_processed, pdf_i, pdf_pc>>

svcVars == <<request, calls, svc_log, waited>>

pipeVars == <<docVars, pdfVars, svcVars, output_file>>

vars == <<cppVars, tokVars, pipeVars>>

(***************************************************************************)
(* Bounds of the model.                                                    *)
(***************************************************************************)
\* longest document given to split_cpp_file, in characters
MaxTextLen == 5
\* largest max_length given to split_cpp_file (beside the bound 20 of the
\* documented example)
MaxBound == 4
\* longest text given to split_text_by_tokens, in characters
MaxTokTextLen == 5
\* largest max_tokens given to split_text_by_tokens
MaxTokens == 3
\* longest time a call of the PDF cleaner is left unanswered, in steps
MaxLatency == 1

(***************************************************************************)
(* Strings.                                                                *)
(***************************************************************************)
NL == "\n"

Range(s) == {s[k] : k \in 1..Len(s)}

\* every string over alphabet A of length at most n
Strs(A, n) == UNION {[1..k -> A] : k \in 0..n}

RECURSIVE Flatten(_)
\* concatenation of a sequence of strings
Flatten(ss) == IF ss = <<>> THEN <<>> ELSE Head(ss) \o Flatten(Tail(ss))

RECURSIVE Join(_, _)
\* sep.join(ss) of Python
Join(ss, sep) ==
    IF ss = <<>> THEN <<>>
    ELSE IF Len(ss) = 1 THEN ss[1]
    ELSE ss[1] \o sep \o Join(Tail(ss), sep)

RECURSIVE SplitNL(_)
\* s.split('\n') of Python: always at least one piece
SplitNL(s) ==
    IF \A k \in 1..Len(s) : s[k] # NL THEN <<s>>
    ELSE LET p == CHOOSE k \in 1..Len(s) :
                     s[k] = NL /\ \A j \in 1..(k-1) : s[j] # NL
         IN <<SubSeq(s, 1, p - 1)>> \o SplitNL(SubSeq(s, p + 1, Len(s)))

\* the pipelines do not run
PipeIdle ==
    /\ chat_history = <<>>
    /\ response = [finish_reason |-> "none", content |-> <<>>]
    /\ response_list = <<>>
    /\ iter = 0
    /\ doc_code = [none |-> TRUE, text |-> <<>>]
    /\ multi_pc = "idle"
    /\ cleaned_chunks = <<>>
    /\ total_tokens_processed = 0
    /\ pdf_i = 0
    /\ pdf_pc = "idle"
    /\ request = <<>>
    /\ calls = 0
    /\ svc_log = <<>>
    /\ waited = 0
    /\ output_file = [writes |-> 0, content |-> <<>>]

CppIdle ==
    /\ file_content = <<>>
    /\ max_length = 0
    /\ li = 0
    /\ chunks = <<>>
    /\ current_chunk = <<>>
    /\ current_length = 0
    /\ chunk_src = <<>>
    /\ current_src = <<>>
    /\ cpp_pc = "idle"

(***************************************************************************)
(* The tokenizer (tiktoken's encoding, a library): encode cuts a text into *)
(* tokens, decode concatenates them, and decode(encode(s)) = s.  The model *)
(* takes a family of such tokenizers: greedy longest match over the single *)
(* characters and a set of multi-character tokens (merges); with no merge  *)
(* every character is a token.                                             *)
(***************************************************************************)
Min(a, b) == IF a < b THEN a ELSE b

IsPrefix(p, s) == Len(p) <= Len(s) /\ SubSeq(s, 1, Len(p)) = p

\* the longest token of the vocabulary that starts s (s is not empty)
NextToken(s, M) ==
    LET cands == {t \in M \cup {<<s[1]>>} : IsPrefix(t, s)}
    IN CHOOSE t \in cands : \A u \in cands : Len(u) <= Len(t)

RECURSIVE encode(_, _)
\* encoding.encode(text)
encode(s, M) ==
    IF s = <<>> THEN <<>>
    ELSE LET t == NextToken(s, M)
         IN <<t>> \o encode(SubSeq(s, Len(t) + 1, Len(s)), M)

\* encoding.decode(tokens)
decode(toks) == Flatten(toks)

(***************************************************************************)
(* split_text_by_tokens(text, max_tokens, model)                           *)
(***************************************************************************)
TokAlphabet == {"a", ".", "?"}

CandidateMerges == {<<".", "a">>, <<"a", "a">>, <<"a", ".", "a">>}

sentence_breaks == {".", "!", "?", ";", ":"}

\* s.find(c) of Python: 0-based position of the first c in s, or -1
Find(s, c) ==
    IF c \notin Range(s) THEN -1
    ELSE (CHOOSE k \in 1..Len(s) :
              s[k] = c /\ \A j \in 1..(k - 1) : s[j] # c) - 1

\* s.rfind(c) of Python: 0-based position of the last c in s, or -1
RFind(s, c) ==
    IF c \notin Range(s) THEN -1
    ELSE (CHOOSE k \in 1..Len(s) :
              s[k] = c /\ \A j \in (k + 1)..Len(s) : s[j] # c) - 1

SetMax(S) == CHOOSE x \in S : \A y \in S : y <= x

\* the cut taken at the first break of each kind instead of the last
FirstBreakPos(s) == SetMax({-1} \cup {Find(s, b) : b \in sentence_breaks})

\* last_break_pos after the loop over sentence_breaks
LastBreakPos(s) == SetMax({-1} \cup {RFind(s, b) : b \in sentence_breaks})

\* the iteration with used_tokens counted on the text before the break
\* character, the break character left out
TokIterationBeforeBreak(tokens, maxtok, M, st) ==
    LET chunk_tokens == SubSeq(tokens, st.pos + 1,
                               Min(st.pos + maxtok, Len(tokens)))
        chunk_text == decode(chunk_tokens)
        last_break_pos == LastBreakPos(chunk_text)
        cut_text == SubSeq(chunk_text, 1, last_break_pos + 1)
        used_tokens == Len(encode(SubSeq(chunk_text, 1, last_break_pos), M))
    IN IF st.pos + maxtok >= Len(tokens)
       THEN [pos |-> st.pos,
             chunks |-> Append(st.chunks, chunk_text),
             windows |-> Append(st.windows, chunk_text),
             pc |-> "done"]
       ELSE IF last_break_pos # -1
       THEN [pos |-> st.pos + used_tokens,
             chunks |-> Append(st.chunks, cut_text),
             windows |-> Append(st.windows, chunk_text),
             pc |-> "loop"]
       ELSE [pos |-> st.pos + Len(chunk_tokens),
             chunks |-> Append(st.chunks, chunk_text),
             windows |-> Append(st.windows, chunk_text),
             pc |-> "loop"]

\* one iteration of the while loop, on the locals
\* st = [pos, chunks, windows, pc]; windows records each chunk's chunk_text
\* as decoded at the top of the iteration
TokIteration(tokens, maxtok, M, st) ==
    LET chunk_tokens == SubSeq(tokens, st.pos + 1,
                               Min(st.pos + maxtok, Len(tokens)))
        chunk_text == decode(chunk_tokens)
        last_break_pos == LastBreakPos(chunk_text)
        cut_text == SubSeq(chunk_text, 1, last_break_pos + 1)
        used_tokens == Len(encode(cut_text, M))
    IN IF st.pos + maxtok >= Len(tokens)
       THEN [pos |-> st.pos,
             chunks |-> Append(st.chunks, chunk_text),
             windows |-> Append(st.windows, chunk_text),
             pc |-> "done"]
       ELSE IF last_break_pos # -1
       THEN [pos |-> st.pos + used_tokens,
             chunks |-> Append(st.chunks, cut_text),
             windows |-> Append(st.windows, chunk_text),
             pc |-> "loop"]
       ELSE [pos |-> st.pos + Len(chunk_tokens),
             chunks |-> Append(st.chunks, chunk_text),
             windows |-> Append(st.windows, chunk_text),
             pc |-> "loop"]

\* tokens = encoding.encode(text)
tokens == encode(text, merges)

TokIdle ==
    /\ text = <<>>
    /\ max_tokens = 1
    /\ merges = {}
    /\ current_pos = 0
    /\ tok_chunks = <<>>
    /\ chunk_windows = <<>>
    /\ tok_pc = "idle"

TokInit ==
    /\ text \in Strs(TokAlphabet, MaxTokTextLen)
    /\ max_tokens \in 1..MaxTokens
    /\ merges \in SUBSET CandidateMerges
    /\ current_pos = 0
    /\ tok_chunks = <<>>
    /\ chunk_windows = <<>>
    /\ tok_pc = "loop"
    /\ CppIdle
    /\ PipeIdle

\* the loop body, while current_pos < len(tokens)
TokLoop ==
    /\ tok_pc = "loop"
    /\ current_pos < Len(tokens)
    /\ LET st == TokIteration(tokens, max_tokens, merges,
                              [pos |-> current_pos, chunks |-> tok_chunks,
                               windows |-> chunk_windows, pc |-> tok_pc])
       IN /\ current_pos' = st.pos
          /\ tok_chunks' = st.chunks
          /\ chunk_windows' = st.windows
          /\ tok_pc' = st.pc
    /\ UNCHANGED <<text, max_tokens, merges>>
    /\ UNCHANGED <<cppVars, pipeVars>>

\* the loop condition fails: return chunks
TokReturn ==
    /\ tok_pc = "loop"
    /\ current_pos >= Len(tokens)
    /\ tok_pc' = "done"
    /\ UNCHANGED <<text, max_tokens, merges, current_pos, tok_chunks,
                   chunk_windows>>
    /\ UNCHANGED <<cppVars, pipeVars>>

TokNext == TokLoop \/ TokReturn

SpecTok == TokInit /\ [][TokNext]_vars

(***************************************************************************)
(* split_cpp_file(file_content, max_length)                                *)
(***************************************************************************)
CppAlphabet == {"a", "{", "}", NL}

\* the document of the documented example: "void f() {\n  return;\n}\n"
ExampleDoc ==
    <<"v","o","i","d"," ","f","(",")"," ","{",NL,
      " "," ","r","e","t","u","r","n",";",NL,
      "}",NL>>

CppTexts == Strs(CppAlphabet, MaxTextLen) \cup {ExampleDoc}

\* max_length is a positive size (the caller passes 2048)
CppBounds == (1..MaxBound) \cup {20}

\* the lines the loop runs over
FileLines == SplitNL(file_content)

\* line_length = len(line) + 1
line_length(line) == Len(line) + 1

\* the cut taken already when the bound is reached, not only when passed
CutConditionGe(cur_len, line, maxlen) ==
    cur_len + line_length(line) >= maxlen \/ "}" \in Range(line)

\* the length test alone, without adding the line's own length
CutConditionNoLine(cur_len, line, maxlen) ==
    cur_len > maxlen \/ "}" \in Range(line)

\* current_length + line_length > max_length or '}' in line
CutCondition(cur_len, line, maxlen) ==
    cur_len + line_length(line) > maxlen \/ "}" \in Range(line)

CppInit ==
    /\ file_content \in CppTexts
    /\ max_length \in CppBounds
    /\ li = 0
    /\ chunks = <<>>
    /\ current_chunk = <<>>
    /\ current_length = 0
    /\ chunk_src = <<>>
    /\ current_src = <<>>
    /\ cpp_pc = "loop"
    /\ TokIdle
    /\ PipeIdle

\* one iteration of the for loop over file_content.split('\n')
CppLine ==
    /\ cpp_pc = "loop"
    /\ li < Len(FileLines)
    /\ LET line == FileLines[li + 1]
           cut  == CutCondition(current_length, line, max_length)
       IN /\ chunks' = IF cut THEN Append(chunks, Join(current_chunk, <<NL>>))
                       ELSE chunks
          /\ chunk_src' = IF cut THEN Append(chunk_src, current_src)
                          ELSE chunk_src
          /\ current_chunk' = IF cut THEN <<line>>
                              ELSE Append(current_chunk, line)
          /\ current_src' = IF cut THEN <<li + 1>>
                            ELSE Append(current_src, li + 1)
          /\ current_length' = (IF cut THEN 0 ELSE current_length)
                               + line_length(line)
    /\ li' = li + 1
    /\ UNCHANGED <<file_content, max_length, cpp_pc>>
    /\ UNCHANGED <<tokVars, pipeVars>>

\* after the loop: the remaining lines, if any, and the return
CppReturn ==
    /\ cpp_pc = "loop"
    /\ li = Len(FileLines)
    /\ chunks' = IF current_chunk # <<>>
                 THEN Append(chunks, Join(current_chunk, <<NL>>))
                 ELSE chunks
    /\ chunk_src' = IF current_chunk # <<>>
                    THEN Append(chunk_src, current_src)
                    ELSE chunk_src
    /\ cpp_pc' = "done"
    /\ UNCHANGED <<file_content, max_length, li, current_chunk,
                   current_length, current_src>>
    /\ UNCHANGED <<tokVars, pipeVars>>

CppNext == CppLine \/ CppReturn

SpecCpp == CppInit /\ [][CppNext]_vars

\* either splitter, run on its own
SpecSplit == (CppInit \/ TokInit) /\ [][CppNext \/ TokNext]_vars

(***************************************************************************)
(* String operations of the pipelines.                                     *)
(***************************************************************************)
\* sub in s
Contains(s, sub) ==
    \E k \in 0..(Len(s) - Len(sub)) : SubSeq(s, k + 1, k + Len(sub)) = sub

\* sub starts at the 0-based position k of s
OccursAt(s, sub, k) == SubSeq(s, k + 1, k + Len(sub)) = sub

RECURSIVE Replace(_, _, _)
\* s.replace(old, new) of Python, old not empty: one pass from the left
\* over the occurrences that do not overlap
Replace(s, old, new) ==
    IF ~Contains(s, old) THEN s
    ELSE LET p == CHOOSE k \in 0..(Len(s) - Len(old)) :
                     /\ OccursAt(s, old, k)
                     /\ \A j \in 0..(k - 1) : ~OccursAt(s, old, j)
         IN SubSeq(s, 1, p) \o new
              \o Replace(SubSeq(s, p + Len(old) + 1, Len(s)), old, new)

Whitespace == {" ", NL}

RECURSIVE LStrip(_)
LStrip(s) ==
    IF s # <<>> /\ s[1] \in Whitespace THEN LStrip(Tail(s)) ELSE s

RECURSIVE RStrip(_)
RStrip(s) ==
    IF s # <<>> /\ s[Len(s)] \in Whitespace
    THEN RStrip(SubSeq(s, 1, Len(s) - 1)) ELSE s

\* s.strip() of Python
Strip(s) == RStrip(LStrip(s))

(***************************************************************************)
(* The remote service.  A call either raises (transport error, bad         *)
(* request) or returns a reply with a finish reason and a content; the     *)
(* program decides neither.                                                *)
(***************************************************************************)
FinishReasons == {"stop", "length", "content_filter"}

\* the backtick character, which a TLA+ string cannot hold
BT == "BACKTICK"

Sentinel == <<"/", "/", "c", "o", "n", "t", "i", "n", "u", "e">>

FenceCpp == <<BT, BT, BT, "c", "p", "p">>

Fence == <<BT, BT, BT>>

\* the contents the service answers add_doxygen_multi with
Fragments ==
    { <<>>,
      <<"x">>,
      <<"x", NL>> \o Sentinel,
      <<"/", "/", "c", "o", "n">> \o Sentinel \o <<"t", "i", "n", "u", "e">>,
      FenceCpp \o <<NL, "x", NL>> \o Fence,
      <<"/", "/", "c", "o", "n">> \o Fence \o <<"t", "i", "n", "u", "e">>,
      <<BT>> \o Sentinel \o <<BT, BT>> }

DocReplies == [finish_reason : FinishReasons, content : Fragments]

\* the contents the service answers clean_text_with_gpt with
CleanedTexts == { <<" ", "x", NL>>, <<"y">> }

PdfReplies == [finish_reason : {"stop", "length"}, content : CleanedTexts]

(***************************************************************************)
(* process_cpp_file and add_doxygen_multi.  The code read from the input   *)
(* file and cleaned by clean_code_content reaches the service only inside  *)
(* the first user message, which the model keeps as one opaque text.       *)
(***************************************************************************)
max_iter == 5

SystemMessage == [role |-> "system", content |-> <<"DOXYGEN_INSTRUCTIONS">>]

CodeMessage == [role |-> "user", content |-> <<"ADD_DOXYGEN_TO_CODE">>]

ContinueMessage == [role |-> "user", content |-> <<"PLEASE_CONTINUE">>]

NoneValue == [none |-> TRUE, text |-> <<>>]

\* the loop decided on the first response instead of the last
LoopConditionFirst ==
    Contains(response_list[1], Sentinel) /\ iter < max_iter

\* the loop left at max_iter - 1 continuation requests
LoopConditionShort ==
    Contains(response_list[Len(response_list)], Sentinel)
        /\ iter < max_iter - 1

\* the loop allowed one more round
LoopConditionLong ==
    Contains(response_list[Len(response_list)], Sentinel)
        /\ iter <= max_iter

\* '//continue' in response_list[-1] and iter < max_iter
LoopCondition ==
    Contains(response_list[Len(response_list)], Sentinel)
        /\ iter < max_iter

\* a reply stopped by length taken as a normal stop
ReplyOkOrLength(r) == r.finish_reason \in {"stop", "length"}

\* not (finish_reason != 'stop')
ReplyOk(r) == r.finish_reason = "stop"

\* the reply left out of the conversation
WithoutReply(ch, r) == ch

\* chat_history.append(response.choices[0].message)
WithReply(ch, r) == Append(ch, [role |-> "assistant", content |-> r.content])

\* only the last response returned
MergeOutputLast(rl) ==
    Replace(Replace(Replace(rl[Len(rl)], FenceCpp, <<>>), Fence, <<>>),
            Sentinel, <<>>)

\* the merge of the responses and the removal of the markers
MergeOutput(rl) ==
    Replace(Replace(Replace(Join(rl, <<NL>>), FenceCpp, <<>>), Fence, <<>>),
            Sentinel, <<>>)

\* the file written whatever add_doxygen_multi returned
ShouldWriteAlways(dc) == TRUE

\* if doc_code: neither None nor the empty string
ShouldWrite(dc) == ~dc.none /\ dc.text # <<>>

DocInit ==
    /\ chat_history = <<>>
    /\ response = [finish_reason |-> "none", content |-> <<>>]
    /\ response_list = <<>>
    /\ iter = 0
    /\ doc_code = NoneValue
    /\ multi_pc = "start"
    /\ cleaned_chunks = <<>>
    /\ total_tokens_processed = 0
    /\ pdf_i = 0
    /\ pdf_pc = "idle"
    /\ request = <<>>
    /\ calls = 0
    /\ svc_log = <<>>
    /\ waited = 0
    /\ output_file = [writes |-> 0, content |-> <<>>]
    /\ TokIdle

\* process_cpp_file reads and cleans the code and calls add_doxygen_multi,
\* which builds chat_history and sends the first request
DocStart ==
    /\ multi_pc = "start"
    /\ chat_history' = <<SystemMessage, CodeMessage>>
    /\ request' = chat_history'
    /\ calls' = calls + 1
    /\ multi_pc' = "await"
    /\ UNCHANGED <<response, response_list, iter, doc_code>>
    /\ UNCHANGED <<pdfVars, svc_log, waited, output_file>>
    /\ UNCHANGED <<cppVars, tokVars>>

\* the call raises: nothing catches it, the program ends
DocRaise ==
    /\ multi_pc = "await"
    /\ multi_pc' = "raised"
    /\ UNCHANGED <<chat_history, response, response_list, iter, doc_code>>
    /\ UNCHANGED <<pdfVars, svcVars, output_file>>
    /\ UNCHANGED <<cppVars, tokVars>>

\* a reply whose finish_reason is not 'stop': print the error, return None
DocError ==
    /\ multi_pc = "await"
    /\ \E r \in DocReplies :
           /\ ~ReplyOk(r)
           /\ response' = r
    /\ doc_code' = NoneValue
    /\ multi_pc' = "failed"
    /\ UNCHANGED <<chat_history, response_list, iter>>
    /\ UNCHANGED <<pdfVars, svcVars, output_file>>
    /\ UNCHANGED <<cppVars, tokVars>>

\* a reply whose finish_reason is 'stop': record it
DocAppend ==
    /\ multi_pc = "await"
    /\ \E r \in DocReplies :
           /\ ReplyOk(r)
           /\ response' = r
           /\ response_list' = Append(response_list, r.content)
           /\ chat_history' = WithReply(chat_history, r)
    /\ multi_pc' = "test"
    /\ UNCHANGED <<iter, doc_code>>
    /\ UNCHANGED <<pdfVars, svcVars, output_file>>
    /\ UNCHANGED <<cppVars, tokVars>>

\* the loop condition holds: ask the service to continue
DocContinue ==
    /\ multi_pc = "test"
    /\ LoopCondition
    /\ iter' = iter + 1
    /\ chat_history' = Append(chat_history, ContinueMessage)
    /\ request' = chat_history'
    /\ calls' = calls + 1
    /\ multi_pc' = "await"
    /\ UNCHANGED <<response, response_list, doc_code>>
    /\ UNCHANGED <<pdfVars, svc_log, waited, output_file>>
    /\ UNCHANGED <<cppVars, tokVars>>

\* the loop condition fails: merge, strip, return
DocMerge ==
    /\ multi_pc = "test"
    /\ ~LoopCondition
    /\ doc_code' = [none |-> FALSE, text |-> MergeOutput(response_list)]
    /\ multi_pc' = "returned"
    /\ UNCHANGED <<chat_history, response, response_list, iter>>
    /\ UNCHANGED <<pdfVars, svcVars, output_file>>
    /\ UNCHANGED <<cppVars, tokVars>>

\* back in process_cpp_file: if doc_code, write it to the output file
ProcWrite ==
    /\ multi_pc \in {"returned", "failed"}
    /\ output_file' = IF ShouldWrite(doc_code)
                      THEN [writes |-> output_file.writes + 1,
                            content |-> doc_code.text]
                      ELSE output_file
    /\ multi_pc' = "done"
    /\ UNCHANGED <<chat_history, response, response_list, iter, doc_code>>
    /\ UNCHANGED <<pdfVars, svcVars>>
    /\ UNCHANGED <<cppVars, tokVars>>

DocNext ==
    \/ DocStart
    \/ DocRaise
    \/ DocError
    \/ DocAppend
    \/ DocContinue
    \/ DocMerge
    \/ ProcWrite

(***************************************************************************)
(* The PDF cleaner: main, read_file_in_chunks, clean_text_with_gpt.        *)
(* main's chunks are what split_text_by_tokens returned (tok_chunks); the  *)
(* debug files are off (--debug-dir is empty by default).                  *)
(***************************************************************************)
PdfTexts ==
    { <<>>,
      <<"a", "a", ".", "a">>,
      <<"a", ".", "a", "?", "a">> }

\* count_tokens(text, model)
count_tokens(s) == Len(encode(s, merges))

\* the except clause returning an empty text for the chunk
ExceptReturnEmpty(chunk) == <<>>

\* except Exception: return text (the original text of the chunk)
ExceptReturn(chunk) == chunk

\* the cleaned chunk put in front of the list
KeepReversed(cc, c) == <<c>> \o cc

\* cleaned_chunks.append(cleaned_chunk)
Keep(cc, c) == Append(cc, c)

PdfInit ==
    /\ text \in PdfTexts
    /\ max_tokens \in 2..MaxTokens
    /\ merges \in {{}, {<<".", "a">>}}
    /\ current_pos = 0
    /\ tok_chunks = <<>>
    /\ chunk_windows = <<>>
    /\ tok_pc = "idle"
    /\ chat_history = <<>>
    /\ response = [finish_reason |-> "none", content |-> <<>>]
    /\ response_list = <<>>
    /\ iter = 0
    /\ doc_code = NoneValue
    /\ multi_pc = "idle"
    /\ cleaned_chunks = <<>>
    /\ total_tokens_processed = 0
    /\ pdf_i = 0
    /\ pdf_pc = "start"
    /\ request = <<>>
    /\ calls = 0
    /\ svc_log = <<>>
    /\ waited = 0
    /\ output_file = [writes |-> 0, content |-> <<>>]

\* main calls read_file_in_chunks, which calls split_text_by_tokens
PdfRead ==
    /\ pdf_pc = "start"
    /\ tok_pc' = "loop"
    /\ pdf_pc' = "split"
    /\ UNCHANGED <<text, max_tokens, merges, current_pos, tok_chunks,
                   chunk_windows>>
    /\ UNCHANGED <<cleaned_chunks, total_tokens_processed, pdf_i>>
    /\ UNCHANGED <<docVars, svcVars, output_file, cppVars>>

\* split_text_by_tokens returned: the loop over the chunks starts
PdfChunks ==
    /\ pdf_pc = "split"
    /\ tok_pc = "done"
    /\ cleaned_chunks' = <<>>
    /\ total_tokens_processed' = 0
    /\ pdf_pc' = "loop"
    /\ UNCHANGED pdf_i
    /\ UNCHANGED <<docVars, svcVars, output_file, cppVars, tokVars>>

\* clean_text_with_gpt(chunk): the request for chunk pdf_i + 1 is sent
PdfCall ==
    /\ pdf_pc = "loop"
    /\ pdf_i < Len(tok_chunks)
    /\ request' = tok_chunks[pdf_i + 1]
    /\ calls' = calls + 1
    /\ svc_log' = Append(svc_log,
           [ev |-> "call", n |-> pdf_i + 1, finish_reason |-> "none",
            content |-> tok_chunks[pdf_i + 1], lat |-> 0])
    /\ waited' = 0
    /\ pdf_pc' = "await"
    /\ UNCHANGED <<cleaned_chunks, total_tokens_processed, pdf_i>>
    /\ UNCHANGED <<docVars, output_file, cppVars, tokVars>>

\* the call blocks while the service works
PdfWait ==
    /\ pdf_pc = "await"
    /\ waited < MaxLatency
    /\ waited' = waited + 1
    /\ UNCHANGED <<request, calls, svc_log>>
    /\ UNCHANGED <<docVars, pdfVars, output_file, cppVars, tokVars>>

\* the rest of the iteration, cleaned_chunk being what the call returned
PdfKeep(cleaned_chunk, chunk_tokens) ==
    /\ cleaned_chunks' = Keep(cleaned_chunks, cleaned_chunk)
    /\ total_tokens_processed' = total_tokens_processed + chunk_tokens
    /\ pdf_i' = pdf_i + 1
    /\ pdf_pc' = "loop"

\* the service answers: the stripped content is the cleaned chunk
PdfReply ==
    /\ pdf_pc = "await"
    /\ \E r \in PdfReplies :
           /\ svc_log' = Append(svc_log,
                  [ev |-> "reply", n |-> pdf_i + 1,
                   finish_reason |-> r.finish_reason,
                   content |-> r.content, lat |-> waited])
           /\ PdfKeep(Strip(r.content), count_tokens(tok_chunks[pdf_i + 1]))
    /\ UNCHANGED <<request, calls, waited>>
    /\ UNCHANGED <<docVars, output_file, cppVars, tokVars>>

\* the call raises: the except clause returns the original text
PdfRaise ==
    /\ pdf_pc = "await"
    /\ svc_log' = Append(svc_log,
           [ev |-> "raise", n |-> pdf_i + 1, finish_reason |-> "none",
            content |-> <<>>, lat |-> waited])
    /\ PdfKeep(ExceptReturn(tok_chunks[pdf_i + 1]),
               count_tokens(tok_chunks[pdf_i + 1]))
    /\ UNCHANGED <<request, calls, waited>>
    /\ UNCHANGED <<docVars, output_file, cppVars, tokVars>>

\* after the loop: write '\n'.join(cleaned_chunks) to the output file
PdfWrite ==
    /\ pdf_pc = "loop"
    /\ pdf_i = Len(tok_chunks)
    /\ output_file' = [writes |-> output_file.writes + 1,
                       content |-> Join(cleaned_chunks, <<NL>>)]
    /\ pdf_pc' = "done"
    /\ UNCHANGED <<cleaned_chunks, total_tokens_processed, pdf_i>>
    /\ UNCHANGED <<docVars, svcVars, cppVars, tokVars>>

PdfNext ==
    \/ PdfRead
    \/ (pdf_pc = "split" /\ TokLoop)
    \/ (pdf_pc = "split" /\ TokReturn)
    \/ PdfChunks
    \/ PdfCall
    \/ PdfWait
    \/ PdfReply
    \/ PdfRaise
    \/ PdfWrite

(***************************************************************************)
(* The two pipelines: one run is either process_cpp_file on a header or    *)
(* the PDF cleaner's main on a text.                                       *)
(***************************************************************************)
PipeInit == CppIdle /\ (DocInit \/ PdfInit)

PipeNext == DocNext \/ PdfNext

SpecPipe == PipeInit /\ [][PipeNext]_vars

\* the steps of main of the PDF cleaner around its split
PdfMain ==
    PdfRead \/ PdfChunks \/ PdfCall \/ PdfReply \/ PdfRaise \/ PdfWrite

\* main of the PDF cleaner runs on: it is a sequential program, and the
\* blocking call to the service returns or raises
SpecPipeFair == SpecPipe /\ WF_vars(PdfMain)

(***************************************************************************)
(* Claims about split_cpp_file, under SpecCpp.                             *)
(***************************************************************************)
\* the lines of the document a chunk was built from
SrcLines(src) == [j \in 1..Len(src) |-> FileLines[src[j]]]

ContainsBrace(line) == "}" \in Range(line)

\* C1: joining the chunks returned by split_cpp_file with '\n' reproduces
\* the document exactly, for every document and every bound.
C1_NoLossCpp ==
    cpp_pc = "done" => Join(chunks, <<NL>>) = file_content

\* C7: a line that contains '}' is the last line of the chunk it belongs
\* to, and the documented example (bound 20) yields "void f() {" followed by
\* a chunk that holds "  return;" and "}" together.
C7_CutAfterClosingBrace ==
    cpp_pc = "done" =>
        /\ \A k \in 1..Len(chunk_src) : \A j \in 1..Len(chunk_src[k]) :
               ContainsBrace(FileLines[chunk_src[k][j]])
                   => j = Len(chunk_src[k])
        /\ (file_content = ExampleDoc /\ max_length = 20) =>
               /\ Len(chunks) >= 2
               /\ chunks[1] = FileLines[1]
               /\ chunk_src[2] \in {<<2, 3>>, <<2, 3, 4>>}

\* C8: a line longer than max_length is, at return, in exactly one chunk,
\* alone in it and whole: the chunk's text is the line.
C8_OversizeLineAlone ==
    cpp_pc = "done" =>
        /\ \A k \in 1..Len(chunks) :
               chunks[k] = Join(SrcLines(chunk_src[k]), <<NL>>)
        /\ \A i \in 1..Len(FileLines) :
               Len(FileLines[i]) > max_length =>
                   \E k \in 1..Len(chunks) :
                       /\ chunk_src[k] = <<i>>
                       /\ chunks[k] = FileLines[i]
                       /\ \A k2 \in (1..Len(chunks)) \ {k} :
                              i \notin Range(chunk_src[k2])

\* an oversized line between two lines that fit the bound
C8_Witness ==
    /\ cpp_pc = "done"
    /\ \E i \in 2..(Len(FileLines) - 1) :
           /\ Len(FileLines[i]) > max_length
           /\ line_length(FileLines[i - 1]) <= max_length
           /\ line_length(FileLines[i + 1]) <= max_length

(***************************************************************************)
(* Claims about split_text_by_tokens, under SpecTok.                       *)
(***************************************************************************)
\* C2: the chunks of split_text_by_tokens, concatenated in order, are the
\* text: at every point of the loop the chunks so far followed by the
\* tokens from current_pos on decode to the text (no source token skipped
\* or repeated), and at return the chunks alone do.
C2_NoLossTokens ==
    /\ tok_pc = "loop" =>
           Flatten(tok_chunks)
             \o decode(SubSeq(tokens, Min(current_pos, Len(tokens)) + 1,
                              Len(tokens))) = text
    /\ tok_pc = "done" => Flatten(tok_chunks) = text

IsBreak(c) == c \in sentence_breaks

HasBreak(s) == \E k \in 1..Len(s) : IsBreak(s[k])

\* C9: every chunk but the last whose window holds a sentence break ends
\* exactly at the last break of the window; one whose window holds none is
\* the whole window.
C9_BoundaryPreference ==
    \A k \in 1..(Len(tok_chunks) - 1) :
        LET w == chunk_windows[k]
            c == tok_chunks[k]
        IN IF HasBreak(w)
           THEN /\ c # <<>>
                /\ IsPrefix(c, w)
                /\ IsBreak(c[Len(c)])
                /\ ~HasBreak(SubSeq(w, Len(c) + 1, Len(w)))
           ELSE c = w

\* a chunk that is not the last was cut at a break inside its window, with
\* text of the window left after the break
C9_Witness ==
    /\ tok_pc = "done"
    /\ \E k \in 1..(Len(tok_chunks) - 1) :
           /\ HasBreak(chunk_windows[k])
           /\ Len(tok_chunks[k]) < Len(chunk_windows[k])
           /\ \E j \in 1..(Len(tok_chunks[k]) - 1) :
                  IsBreak(chunk_windows[k][j])

(***************************************************************************)
(* Claims about the pipelines, under SpecPipe.                             *)
(***************************************************************************)
\* the transform of process_cpp_file failed: the call raised, or a reply
\* came with a finish reason other than 'stop'
DocFailed ==
    \/ multi_pc = "raised"
    \/ response.finish_reason \notin {"none", "stop"}

\* the transform of a chunk of the PDF cleaner failed, likewise
PdfFailed ==
    \E j \in 1..Len(svc_log) :
        \/ svc_log[j].ev = "raise"
        \/ svc_log[j].ev = "reply" /\ svc_log[j].finish_reason # "stop"

\* C3 as stated: in both pipelines, once the transform of a chunk failed
\* the output file is neither created nor modified.
C3_AllOrNothingBoth ==
    (DocFailed \/ PdfFailed) => output_file.writes = 0

\* C3 amended: process_cpp_file never writes the output file once its
\* transform failed; the PDF cleaner's main writes it once whatever failed,
\* a chunk whose call raised standing in it as its original text.
C3_AllOrNothingDoc ==
    /\ DocFailed => output_file.writes = 0
    /\ pdf_pc = "done" =>
           /\ output_file.writes = 1
           /\ \A k \in 1..Len(tok_chunks) :
                  svc_log[2 * k].ev = "raise"
                      => cleaned_chunks[k] = tok_chunks[k]

\* process_cpp_file is over, its transform having failed in a continuation
\* round with fragments already recorded
C3_Witness ==
    /\ multi_pc = "done"
    /\ DocFailed
    /\ Len(response_list) >= 2
    /\ output_file.writes = 0

\* C4: add_doxygen_multi makes at most max_iter + 1 service calls and
\* records at most as many fragments, whatever the service answers.
C4_ContinuationBound ==
    multi_pc # "idle" =>
        /\ calls <= max_iter + 1
        /\ Len(response_list) <= max_iter + 1
        /\ Len(response_list) <= calls

\* the service asked for a continuation in every reply, and the run ended
\* after max_iter + 1 calls
C4_Witness ==
    /\ multi_pc = "done"
    /\ calls = max_iter + 1
    /\ Len(response_list) = max_iter + 1
    /\ \A k \in 1..Len(response_list) : Contains(response_list[k], Sentinel)

\* C5 as stated: a reply stopped by length, fewer than max_iter
\* continuation requests having been sent, is not taken as an error.
C5_LengthContinues ==
    (response.finish_reason = "length" /\ iter < max_iter)
        => multi_pc # "failed"

\* a reply that stopped normally, holds the sentinel and came before
\* max_iter continuation requests were sent
C5_SentinelReply ==
    /\ multi_pc = "test"
    /\ response.finish_reason = "stop"
    /\ Contains(response.content, Sentinel)
    /\ iter < max_iter

\* C5 amended: the sentinel, not the finish reason, drives the continuation.
\* After a reply that stopped normally with the sentinel in its text, fewer
\* than max_iter continuation requests having been sent, the next step is a
\* continuation request that carries the conversation so far; a reply
\* stopped by length is an error: no text is returned and no further
\* request is sent.
C5_SentinelDrivesContinuation ==
    /\ [](response.finish_reason = "length" =>
              /\ multi_pc \in {"failed", "done"}
              /\ doc_code = NoneValue
              /\ calls = Len(response_list) + 1)
    /\ [][C5_SentinelReply =>
              /\ multi_pc' = "await"
              /\ request' = Append(chat_history, ContinueMessage)
              /\ calls' = calls + 1]_vars

\* a continuation request is in flight, sent after a reply that stopped
\* normally with the sentinel
C5_Witness ==
    /\ multi_pc = "await"
    /\ iter >= 1
    /\ response.finish_reason = "stop"
    /\ Contains(response.content, Sentinel)
    /\ request = chat_history

\* C6: the text add_doxygen_multi returns holds no '//continue'.
C6_SentinelStripped ==
    ~doc_code.none => ~Contains(doc_code.text, Sentinel)

\* what the call for chunk k gave main: the stripped content of the reply,
\* or the chunk as sent when the call raised
ChunkOutput(k) ==
    IF svc_log[2 * k].ev = "raise" THEN svc_log[2 * k - 1].content
    ELSE Strip(svc_log[2 * k].content)

\* C10: the calls of the PDF cleaner reach the service one at a time in
\* chunk order, the call for a chunk only after the call for the one before
\* has returned; cleaned_chunks holds one output per returned call in that
\* order, and the file written is these outputs joined by '\n'.
C10_SequentialInOrder ==
    /\ \A j \in 1..Len(svc_log) :
           /\ svc_log[j].n = (j + 1) \div 2
           /\ (svc_log[j].ev = "call") <=> (j % 2 = 1)
    /\ pdf_pc # "idle" =>
           /\ Len(cleaned_chunks) = Len(svc_log) \div 2
           /\ \A k \in 1..Len(cleaned_chunks) :
                  cleaned_chunks[k] = ChunkOutput(k)
    /\ pdf_pc = "done" =>
           /\ Len(cleaned_chunks) = Len(tok_chunks)
           /\ output_file.writes = 1
           /\ output_file.content =
                  Join([k \in 1..Len(tok_chunks) |-> ChunkOutput(k)], <<NL>>)

\* the file is written, the call for the first chunk having taken longer
\* than the call for the second, with different outputs
C10_Witness ==
    /\ pdf_pc = "done"
    /\ Len(tok_chunks) >= 2
    /\ svc_log[2].lat > svc_log[4].lat
    /\ cleaned_chunks[1] # cleaned_chunks[2]

\* C11: process_cpp_file writes the output file exactly once when
\* add_doxygen_multi returned a text, the empty text included, never when it
\* returned None, and never before add_doxygen_multi has returned.
C11_WriteOnceOnSuccess ==
    multi_pc # "idle" =>
        /\ multi_pc = "done" =>
               output_file.writes = (IF doc_code.none THEN 0 ELSE 1)
        /\ multi_pc # "done" => output_file.writes = 0

Count(s, c) == Cardinality({k \in 1..Len(s) : s[k] = c})

\* every '}' closes an earlier '{' and every '{' is closed
Balanced(s) ==
    /\ Count(s, "{") = Count(s, "}")
    /\ \A k \in 1..Len(s) :
           Count(SubSeq(s, 1, k), "}") <= Count(SubSeq(s, 1, k), "{")

\* C12: for a document with balanced braces that fits the bound as a whole,
\* the text before every boundary between two chunks of split_cpp_file
\* holds as many '{' as '}'.
C12_NoCutInsideBlock ==
    (cpp_pc = "done" /\ Balanced(file_content)
         /\ Len(file_content) + 1 <= max_length) =>
        \A k \in 1..(Len(chunks) - 1) :
            LET before == Join(SubSeq(chunks, 1, k), <<NL>>)
            IN  Count(before, "{") = Count(before, "}")

\* C13: once a reply has a finish_reason other than 'stop', or the call
\* raised, add_doxygen_multi has made no call after it, returns None
\* whatever it had collected, and nothing is written.
C13_FailFast ==
    /\ (multi_pc # "idle" /\ response.finish_reason \notin {"none", "stop"}) =>
           /\ multi_pc \in {"failed", "done"}
           /\ doc_code = NoneValue
           /\ calls = Len(response_list) + 1
           /\ output_file.writes = 0
    /\ multi_pc = "raised" =>
           /\ doc_code.none
           /\ calls = Len(response_list) + 1
           /\ output_file.writes = 0

\* the third reply failed, two fragments collected before it
C13_Witness ==
    /\ multi_pc = "done"
    /\ response.finish_reason = "length"
    /\ Len(response_list) = 2
    /\ calls = 3

\* the contents of the assistant turns of a conversation, in order
AssistantContents(ch) ==
    LET a == SelectSeq(ch, LAMBDA m : m.role = "assistant")
    IN  [j \in 1..Len(a) |-> a[j].content]

\* C14: when max_iter continuation requests were sent and the last reply
\* still holds '//continue', add_doxygen_multi returns the max_iter + 1
\* replies in the order received, joined by '\n', with '```cpp', '```' and
\* '//continue' removed in one pass each, and process_cpp_file writes that
\* text.
C14_BestEffortIncomplete ==
    (multi_pc = "done" /\ ~doc_code.none /\ calls = max_iter + 1
         /\ Contains(response.content, Sentinel)) =>
        /\ Len(response_list) = max_iter + 1
        /\ response_list = AssistantContents(chat_history)
        /\ doc_code.text =
               Replace(Replace(Replace(
                   Join(AssistantContents(chat_history), <<NL>>),
                   FenceCpp, <<>>), Fence, <<>>), Sentinel, <<>>)
        /\ output_file = [writes |-> 1, content |-> doc_code.text]

\* the sixth reply still asks to continue, the replies are not all the same,
\* and the file is written
C14_Witness ==
    /\ multi_pc = "done"
    /\ calls = max_iter + 1
    /\ Contains(response.content, Sentinel)
    /\ Len(response_list) = max_iter + 1
    /\ response_list[1] # response_list[max_iter + 1]
    /\ output_file.writes = 1

\* the last reply stopped normally, holds '//continue', and fewer than
\* max_iter continuation requests were sent
ContinuationDue ==
    /\ multi_pc = "test"
    /\ response.finish_reason = "stop"
    /\ Contains(response.content, Sentinel)
    /\ calls - 1 < max_iter

\* C15: after its first request add_doxygen_multi sends a request exactly
\* when the last reply stopped normally, holds '//continue' and fewer than
\* max_iter continuation requests were sent; on a reply that stopped
\* normally without '//continue' it returns a text and calls no more.
C15_ContinuationDecision ==
    /\ [][multi_pc \notin {"idle", "start"} =>
             /\ (calls' = calls + 1) <=> ContinuationDue
             /\ (multi_pc = "test" /\ response.finish_reason = "stop"
                     /\ ~Contains(response.content, Sentinel)) =>
                    (multi_pc' = "returned" /\ ~doc_code'.none
                         /\ calls' = calls)]_vars
    /\ []((multi_pc \in {"returned", "done"} /\ ~doc_code.none
              /\ ~Contains(response.content, Sentinel)) =>
             calls = Len(response_list))

\* a reply without '//continue' ended the loop after two continuation
\* requests, short of max_iter
C15_Witness ==
    /\ multi_pc = "returned"
    /\ iter = 2
    /\ calls = 3
    /\ ~Contains(response.content, Sentinel)

\* C16: chat_history is the system message followed by user and assistant
\* turns in alternation, it only grows at its end, every request ends with
\* a user turn, and the request after k replies holds these k replies as
\* its assistant turns, in the order received.
C16_ConversationLog ==
    /\ [](multi_pc # "idle" =>
             /\ \A j \in 1..Len(chat_history) :
                    chat_history[j].role =
                        IF j = 1 THEN "system"
                        ELSE IF j % 2 = 0 THEN "user" ELSE "assistant"
             /\ AssistantContents(chat_history) = response_list
             /\ calls > 0 =>
                    /\ IsPrefix(request, chat_history)
                    /\ request[Len(request)].role = "user"
                    /\ AssistantContents(request) =
                           SubSeq(response_list, 1, calls - 1))
    /\ [][multi_pc # "idle" => IsPrefix(chat_history, chat_history')]_vars

\* the third request is out, after two different replies
C16_Witness ==
    /\ multi_pc = "await"
    /\ calls = 3
    /\ response_list[1] # response_list[2]
    /\ Len(request) = 6

\* C17: the text add_doxygen_multi returns holds no '```'.
C17_NoFence ==
    ~doc_code.none => ~Contains(doc_code.text, Fence)

\* C18: a chunk of split_cpp_file of two lines or more has an accounted
\* length, the sum of len(line) + 1 over its lines, of at most max_length;
\* a chunk of split_text_by_tokens is text taken from the start of the
\* decoding of at most max_tokens consecutive tokens of the text.
C18_SizeBound ==
    /\ \A k \in 1..Len(chunks) :
           Len(SplitNL(chunks[k])) >= 2 => Len(chunks[k]) + 1 <= max_length
    /\ \A k \in 1..Len(tok_chunks) :
           \E p \in 0..Len(tokens), n \in 0..max_tokens :
               /\ p + n <= Len(tokens)
               /\ IsPrefix(tok_chunks[k],
                           decode(SubSeq(tokens, p + 1, p + n)))

\* a chunk of two lines fills the bound exactly and the split goes on
C18_Witness ==
    /\ cpp_pc = "done"
    /\ Len(chunks) >= 2
    /\ \E k \in 1..(Len(chunks) - 1) :
           /\ Len(chunk_src[k]) >= 2
           /\ Len(chunks[k]) + 1 = max_length

\* the lines of a chunk as the returned chunks show them: sum of len + 1
AccountedLength(src) ==
    IF src = <<>> THEN 0 ELSE Len(Join(SrcLines(src), <<NL>>)) + 1

\* the lines current_chunk held when line i was reached: the lines before i
\* in its chunk, or the chunk before when i is the first line of its chunk
LinesBefore(i) ==
    LET k == CHOOSE c \in 1..Len(chunk_src) : i \in Range(chunk_src[c])
    IN  IF chunk_src[k][1] # i
        THEN SelectSeq(chunk_src[k], LAMBDA j : j < i)
        ELSE IF k > 1 THEN chunk_src[k - 1] ELSE <<>>

\* line i holds '}' or does not fit the bound after the lines before it
TriggersCut(i) ==
    \/ "}" \in Range(FileLines[i])
    \/ AccountedLength(LinesBefore(i)) + Len(FileLines[i]) + 1 > max_length

\* C19: split_cpp_file returns a chunk of zero lines, an empty string,
\* exactly when the first line holds '}' or is longer than the bound on its
\* own, and then as the first chunk only; every other chunk holds a line;
\* the number of chunks is one more than the number of lines that trigger
\* the cut.
C19_EmptyFirstChunk ==
    cpp_pc = "done" =>
        /\ (\E k \in 1..Len(chunks) : chunk_src[k] = <<>>) <=>
               \/ "}" \in Range(FileLines[1])
               \/ Len(FileLines[1]) + 1 > max_length
        /\ \A k \in 2..Len(chunks) : chunk_src[k] # <<>>
        /\ \A k \in 1..Len(chunks) : chunk_src[k] = <<>> => chunks[k] = <<>>
        /\ Len(chunks) =
               1 + Cardinality({i \in 1..Len(FileLines) : TriggersCut(i)})

\* a first line without '}' too long for the bound: the empty first chunk,
\* and two chunks or more after it
C19_Witness ==
    /\ cpp_pc = "done"
    /\ Len(chunks) >= 3
    /\ chunk_src[1] = <<>>
    /\ "}" \notin Range(FileLines[1])
    /\ FileLines[1] # <<>>

\* C20: every iteration of the loop of split_text_by_tokens appends the
\* last chunk and ends the loop, or moves current_pos forward by one token
\* or more and stays in the loop, which runs only while current_pos is
\* below the number of tokens: the loop makes no more iterations than the
\* text has tokens.
C20_Terminates ==
    /\ [][(tok_pc = "loop" /\ current_pos < Len(tokens)) =>
             /\ Len(tok_chunks') = Len(tok_chunks) + 1
             /\ \/ tok_pc' = "done"
                \/ tok_pc' = "loop" /\ current_pos' >= current_pos + 1]_vars
    /\ [](Len(tok_chunks) <= Len(tokens))

\* a chunk that is the break character at the very start of a longer window,
\* and the split returned
C20_Witness ==
    /\ tok_pc = "done"
    /\ \E k \in 1..(Len(tok_chunks) - 1) :
           /\ Len(tok_chunks[k]) = 1
           /\ IsBreak(tok_chunks[k][1])
           /\ Len(chunk_windows[k]) >= 2

\* C21: the PDF cleaner makes one call per chunk, whatever the finish
\* reason of the reply; when the call raises, the output for the chunk is
\* the chunk as it was sent and the loop goes on; cleaned_chunks holds one
\* entry per chunk processed, and every run that has its chunks ends with
\* the output file written once, from one entry per chunk.
C21_SingleShotFailOpen ==
    /\ [](pdf_pc \notin {"idle", "start", "split"} =>
             /\ calls = pdf_i + (IF pdf_pc = "await" THEN 1 ELSE 0)
             /\ Len(cleaned_chunks) = pdf_i
             /\ \A k \in 1..pdf_i :
                    svc_log[2 * k].ev = "raise" =>
                        cleaned_chunks[k] = tok_chunks[k]
             /\ pdf_pc = "done" =>
                    /\ calls = Len(tok_chunks)
                    /\ Len(cleaned_chunks) = Len(tok_chunks)
                    /\ output_file.writes = 1
             /\ pdf_pc # "done" => output_file.writes = 0)
    /\ (pdf_pc = "loop") ~> (pdf_pc = "done" /\ output_file.writes = 1)

\* the call for the first chunk raised, the call for the second was
\* answered with finish_reason 'length', and the file is written
C21_Witness ==
    /\ pdf_pc = "done"
    /\ Len(tok_chunks) >= 2
    /\ svc_log[2].ev = "raise"
    /\ svc_log[4].ev = "reply"
    /\ svc_log[4].finish_reason = "length"
    /\ cleaned_chunks[1] = tok_chunks[1]
    /\ tok_chunks[1] # <<>>
    /\ output_file.writes = 1

====
